---- MODULE Spec2Model ----
(***************************************************************************)
(* Model of sphere_pack: src/main.rs (the command line driver),            *)
(* src/parsing.rs (parsing and validation of the sphere distribution) and  *)
(* src/packing.rs (container geometry, weighted sampler, sizing and pack). *)
(*                                                                         *)
(* Floating point values (f32, f64) are modelled as exact real numbers:    *)
(* rational multiples of a power of pi, extended with the one cube root    *)
(* the program takes (the cylinder radius).  Rounding is not modelled.     *)
(***************************************************************************)
EXTENDS Integers, Sequences, FiniteSets, TLC

(***************************************************************************)
(* Bounds of the model.                                                    *)
(***************************************************************************)
MaxRecords == 2      \* longest distribution read from the input file
MaxRadius == 2       \* largest sphere radius in the input file
MaxProposals == 2    \* spheres the packing engine proposes in one run
MaxCoord == 2        \* largest coordinate of a proposed sphere centre

(***************************************************************************)
(* Exact rational arithmetic: <<n, d>> with d > 0 and gcd(n, d) = 1.       *)
(***************************************************************************)
Abs(x) == IF x < 0 THEN -x ELSE x

RECURSIVE Gcd(_, _)
Gcd(a, b) == IF b = 0 THEN a ELSE Gcd(b, a % b)

Q(n, d) ==
    LET s == IF d < 0 THEN -1 ELSE 1
        g == Gcd(Abs(n), Abs(d))
    IN  <<(s * n) \div g, (s * d) \div g>>

QZero == <<0, 1>>
QOne == <<1, 1>>
QAdd(a, b) == Q(a[1] * b[2] + b[1] * a[2], a[2] * b[2])
QNeg(a) == <<-a[1], a[2]>>
QSub(a, b) == QAdd(a, QNeg(b))
QMul(a, b) == Q(a[1] * b[1], a[2] * b[2])
QInv(a) == Q(a[2], a[1])
QSign(a) == IF a[1] > 0 THEN 1 ELSE IF a[1] < 0 THEN -1 ELSE 0
QCube(a) == QMul(a, QMul(a, a))
QMin(a, b) == IF QSign(QSub(a, b)) <= 0 THEN a ELSE b
QMax(a, b) == IF QSign(QSub(a, b)) >= 0 THEN a ELSE b

(***************************************************************************)
(* Real numbers of the program.  A number is                               *)
(*     pi^e * (c0 + c1*rho + c2*rho^2),   rho = cbrt(q),                   *)
(* with rational c0, c1, c2 and q.  q is QZero when c1 = c2 = 0.           *)
(***************************************************************************)
NNorm(x) ==
    IF x.c1 = QZero /\ x.c2 = QZero
    THEN [e |-> IF x.c0 = QZero THEN 0 ELSE x.e,
          c0 |-> x.c0, c1 |-> QZero, c2 |-> QZero, q |-> QZero]
    ELSE x

NRat(n, d) == [e |-> 0, c0 |-> Q(n, d), c1 |-> QZero, c2 |-> QZero, q |-> QZero]
NInt(n) == NRat(n, 1)
IsRational(x) == x.c1 = QZero /\ x.c2 = QZero
IsZero(x) == x.c0 = QZero /\ x.c1 = QZero /\ x.c2 = QZero
RootOf(x, y) == IF IsRational(x) THEN y.q ELSE x.q
ExpOf(x, y) == IF IsZero(x) THEN y.e ELSE x.e

\* std::f32::consts::PI and std::f64::consts::PI
PI == [e |-> 1, c0 |-> QOne, c1 |-> QZero, c2 |-> QZero, q |-> QZero]

NAdd(x, y) ==
    NNorm([e |-> ExpOf(x, y),
           c0 |-> QAdd(x.c0, y.c0), c1 |-> QAdd(x.c1, y.c1),
           c2 |-> QAdd(x.c2, y.c2), q |-> RootOf(x, y)])

NNeg(x) == [x EXCEPT !.c0 = QNeg(@), !.c1 = QNeg(@), !.c2 = QNeg(@)]
NSub(x, y) == NAdd(x, NNeg(y))

\* the product, reduced by rho^3 = q
NMul(x, y) ==
    LET q == RootOf(x, y)
    IN  NNorm([e |-> x.e + y.e,
               c0 |-> QAdd(QMul(x.c0, y.c0),
                           QMul(q, QAdd(QMul(x.c1, y.c2), QMul(x.c2, y.c1)))),
               c1 |-> QAdd(QAdd(QMul(x.c0, y.c1), QMul(x.c1, y.c0)),
                           QMul(q, QMul(x.c2, y.c2))),
               c2 |-> QAdd(QAdd(QMul(x.c0, y.c2), QMul(x.c1, y.c1)),
                           QMul(x.c2, y.c0)),
               q |-> q])

\* x / y for a divisor without a root part
NDiv(x, y) ==
    LET r == QInv(y.c0)
    IN  NNorm([e |-> x.e - y.e,
               c0 |-> QMul(x.c0, r), c1 |-> QMul(x.c1, r),
               c2 |-> QMul(x.c2, r), q |-> x.q])

\* f32::powi / f64::powi for the exponents the program uses
Powi(x, n) == IF n = 2 THEN NMul(x, x) ELSE NMul(x, NMul(x, x))

\* f32::cbrt of a rational: the real whose cube is x
Cbrt(x) ==
    IF x.c0 = QZero THEN NInt(0)
    ELSE [e |-> 0, c0 |-> QZero, c1 |-> QOne, c2 |-> QZero, q |-> x.c0]

(***************************************************************************)
(* Signs and comparisons.  c0 + c1*rho is compared through cubes, which is *)
(* exact.  With a rho^2 term the sign is decided on a rational enclosure   *)
(* of rho of width 1/4; when the enclosure does not decide, the comparison *)
(* may come out either way.                                                *)
(***************************************************************************)
FloorRoot(q) ==
    CHOOSE l \in 0..200 :
        /\ l * l * l * q[2] <= 64 * q[1]
        /\ (l + 1) * (l + 1) * (l + 1) * q[2] > 64 * q[1]

QuadSigns(x) ==
    IF QSign(x.q) <= 0 THEN {-1, 0, 1}
    ELSE LET l == FloorRoot(x.q)
             lo == Q(l, 4)
             hi == Q(l + 1, 4)
             t1lo == QMin(QMul(x.c1, lo), QMul(x.c1, hi))
             t1hi == QMax(QMul(x.c1, lo), QMul(x.c1, hi))
             t2lo == QMin(QMul(x.c2, QMul(lo, lo)), QMul(x.c2, QMul(hi, hi)))
             t2hi == QMax(QMul(x.c2, QMul(lo, lo)), QMul(x.c2, QMul(hi, hi)))
             low == QAdd(x.c0, QAdd(t1lo, t2lo))
             high == QAdd(x.c0, QAdd(t1hi, t2hi))
         IN  IF QSign(low) > 0 THEN {1}
             ELSE IF QSign(high) < 0 THEN {-1}
             ELSE {-1, 0, 1}

Signs(x) ==
    IF x.c2 = QZero
    THEN {QSign(QAdd(QCube(x.c0), QMul(QCube(x.c1), x.q)))}
    ELSE QuadSigns(x)

Lt(x, y) == {s < 0 : s \in Signs(NSub(x, y))}
Le(x, y) == {s <= 0 : s \in Signs(NSub(x, y))}
Gt(x, y) == {s > 0 : s \in Signs(NSub(x, y))}

(***************************************************************************)
(* The input file: a JSON text.  A text is a list of objects with the      *)
(* members name, radius and proportion, each a JSON value or absent, and   *)
(* a flag telling whether the text is syntactically valid JSON.            *)
(***************************************************************************)
JAbsent == [kind |-> "absent", s |-> "", n |-> 0]
JStr(s) == [kind |-> "string", s |-> s, n |-> 0]
JNum(n) == [kind |-> "number", s |-> "", n |-> n]

Names == <<"5_micron_Al", "400_AP", "sphere_3", "sphere_4">>
Radii == (-1)..MaxRadius
\* 200 + 156 = 356, which is 100 modulo 256
Proportions == {0, 1, 34, 66, 99, 100, 156, 200}

\* the i-th object of a well-formed text
Item(i, r, p) ==
    [name |-> JStr(Names[i]), radius |-> JNum(r), proportion |-> JNum(p)]

\* the ways a record of the text is damaged: a member is missing, the radius
\* is a string, the proportion does not fit a u8
DamageKinds == {"no proportion", "no name", "radius is a string",
                "proportion is 256"}

Damage(it, kind) ==
    CASE kind = "no proportion" -> [it EXCEPT !.proportion = JAbsent]
      [] kind = "no name" -> [it EXCEPT !.name = JAbsent]
      [] kind = "radius is a string" -> [it EXCEPT !.radius = JStr("5.0")]
      [] kind = "proportion is 256" -> [it EXCEPT !.proportion = JNum(256)]

\* what is wrong with a text: nothing, its syntax (a trailing separator),
\* or its i-th record
Defects(n) ==
    {<<0, "none">>, <<0, "syntax">>} \cup ((1..n) \X DamageKinds)

\* the text with the records rp (radius, proportion) and the defect
Text(rp, defect) ==
    [items |-> [i \in 1..Len(rp) |->
                  IF defect[1] = i
                  THEN Damage(Item(i, rp[i][1], rp[i][2]), defect[2])
                  ELSE Item(i, rp[i][1], rp[i][2])],
     syntax |-> defect[2] # "syntax"]

(***************************************************************************)
(* src/parsing.rs                                                          *)
(***************************************************************************)
\* Result<T, E>
Ok(v) == [ok |-> TRUE, val |-> <<v>>, err |-> ""]
Err(e) == [ok |-> FALSE, val |-> <<>>, err |-> e]

\* #[derive(Deserialize)] struct ParsedSphere { name: String, radius: f64,
\* proportion: u8 }: every member is required and must have its type
Deserializable(it) ==
    /\ it.name.kind = "string"
    /\ it.radius.kind = "number"
    /\ it.proportion.kind = "number"
    /\ it.proportion.n \in 0..255

ParsedSphere(it) ==
    [name |-> it.name.s, radius |-> it.radius.n, proportion |-> it.proportion.n]

\* a lenient parser: the records that cannot be read are skipped and the
\* syntax of the text is not checked
from_str_raw_lenient(s) ==
    LET good == {i \in 1..Len(s.items) : Deserializable(s.items[i])}
        keep == [k \in 1..Cardinality(good) |->
                   CHOOSE i \in good : Cardinality({j \in good : j < i}) = k - 1]
    IN  Ok([k \in 1..Cardinality(good) |-> ParsedSphere(s.items[keep[k]])])

\* impl FromStr for SpheresRaw: serde_json::from_str(s)?
from_str_raw(s) ==
    IF s.syntax /\ \A i \in 1..Len(s.items) : Deserializable(s.items[i])
    THEN Ok([i \in 1..Len(s.items) |-> ParsedSphere(s.items[i])])
    ELSE Err("FailedToParse")

\* raw.0.iter().map(|s| s.proportion as u32).sum::<u32>()
RECURSIVE SumProportions(_)
SumProportions(raw) ==
    IF Len(raw) = 0 THEN 0
    ELSE raw[1].proportion + SumProportions(Tail(raw))

\* validate with the sum of the proportions taken in a u8, which wraps
validate_wrapping(raw) ==
    IF \A i \in 1..Len(raw) : raw[i].radius > 0
    THEN IF SumProportions(raw) % 256 = 100
         THEN Ok(raw)
         ELSE Err("InvalidProportions")
    ELSE Err("NonPositive")

\* validate that keeps only the records of a proportion above 0
validate_dropping_empty(raw) ==
    IF \A i \in 1..Len(raw) : raw[i].radius > 0
    THEN IF SumProportions(raw) = 100
         THEN Ok(SelectSeq(raw, LAMBDA s : s.proportion > 0))
         ELSE Err("InvalidProportions")
    ELSE Err("NonPositive")

\* fn validate(raw: SpheresRaw) -> Result<Spheres, ParsingError>
validate(raw) ==
    IF \A i \in 1..Len(raw) : raw[i].radius > 0
    THEN IF SumProportions(raw) = 100
         THEN Ok(raw)
         ELSE Err("InvalidProportions")
    ELSE Err("NonPositive")

\* the terms of Spheres::avg_volume and Spheres::avg_surface_area
RECURSIVE NSum(_)
NSum(terms) ==
    IF Len(terms) = 0 THEN NInt(0) ELSE NAdd(terms[1], NSum(Tail(terms)))

\* Spheres::avg_volume
avg_volume(spheres) ==
    NSum([i \in 1..Len(spheres) |->
            NMul(NMul(NMul(NDiv(NInt(4), NInt(3)), PI),
                      Powi(NInt(spheres[i].radius), 3)),
                 NDiv(NInt(spheres[i].proportion), NInt(100)))])

\* Spheres::avg_surface_area
avg_surface_area(spheres) ==
    NSum([i \in 1..Len(spheres) |->
            NMul(NMul(NMul(NInt(4), PI), Powi(NInt(spheres[i].radius), 2)),
                 NDiv(NInt(spheres[i].proportion), NInt(100)))])

\* Spheres::total_volume and Spheres::total_surface_area are called by pack
\* and are not defined in src/parsing.rs.  pack divides total_volume by 100
\* to get the volume of one average sphere (its comment: "at least 1000
\* spheres with a 50% packing volume"), so the totals are the sums weighted
\* by the proportions as percentages.
total_volume(spheres) ==
    NSum([i \in 1..Len(spheres) |->
            NMul(NMul(NMul(NDiv(NInt(4), NInt(3)), PI),
                      Powi(NInt(spheres[i].radius), 3)),
                 NInt(spheres[i].proportion))])

total_surface_area(spheres) ==
    NSum([i \in 1..Len(spheres) |->
            NMul(NMul(NMul(NInt(4), PI), Powi(NInt(spheres[i].radius), 2)),
                 NInt(spheres[i].proportion))])

(***************************************************************************)
(* src/packing.rs: the container                                           *)
(***************************************************************************)
Point3(x, y, z) == [x |-> x, y |-> y, z |-> z]

\* Point3::origin()
Origin == Point3(NInt(0), NInt(0), NInt(0))

\* spherical_cow::shapes::Sphere
Sphere(center, radius) == [center |-> center, radius |-> radius]

\* a && b of Rust, on the sets of outcomes of a and of b
AndThen(a, b) == IF a = {FALSE} THEN {FALSE} ELSE {x /\ y : x \in a, y \in b}

\* impl Container for Cylinder: fn contains(&self, sphere: &Sphere) -> bool
contains(self, sphere) ==
    AndThen(Lt(self.radius, sphere.radius),
    AndThen(Lt(NAdd(sphere.center.z, sphere.radius),
               NAdd(self.center.z, NDiv(self.height, NInt(2)))),
    AndThen(Lt(NSub(sphere.center.z, sphere.radius),
               NSub(self.center.z, NDiv(self.height, NInt(2)))),
            Le(NAdd(NAdd(Powi(NSub(sphere.center.x, self.center.x), 2),
                         Powi(NSub(sphere.center.y, self.center.y), 2)),
                    Powi(NSub(sphere.center.z, self.center.z), 2)),
               Powi(NSub(self.radius, sphere.radius), 2)))))

\* impl Container for Cylinder: fn volume(&self) -> f32
volume(self) == NMul(NMul(PI, Powi(self.radius, 2)), self.height)

\* Cylinder::new asserting only that radius and height are not below 0
Cylinder_new_nonnegative(bottom, radius, height) ==
    {IF a /\ b
     THEN Ok([radius |-> radius, height |-> height,
              center |-> Point3(bottom.x, bottom.y, NAdd(bottom.z, height))])
     ELSE Err("assertion failed") :
        a \in Le(NInt(0), radius), b \in Le(NInt(0), height)}

\* Cylinder::new: the two assertions, then the struct; Err is the panic
Cylinder_new(bottom, radius, height) ==
    {IF a /\ b
     THEN Ok([radius |-> radius, height |-> height,
              center |-> Point3(bottom.x, bottom.y, NAdd(bottom.z, height))])
     ELSE Err("assertion failed") :
        a \in Gt(radius, NInt(0)), b \in Gt(height, NInt(0))}

(***************************************************************************)
(* src/packing.rs: the weighted sampler.  WeightedIndex<u8> keeps the      *)
(* running totals of the weights before each item and the total; the       *)
(* additions are u8 additions, which panic on overflow in a debug build    *)
(* and wrap in a release build.                                            *)
(***************************************************************************)
RECURSIVE SumSeq(_)
SumSeq(w) == IF Len(w) = 0 THEN 0 ELSE w[1] + SumSeq(Tail(w))

Prefix(w, i) == SumSeq(SubSeq(w, 1, i))

WeightedIndex_new(weights) ==
    IF Len(weights) = 0 THEN {Err("NoItem")}
    ELSE LET built ==
                 IF Prefix(weights, Len(weights)) % 256 = 0
                 THEN Err("AllWeightsZero")
                 ELSE Ok([cumulative_weights |->
                              [i \in 1..(Len(weights) - 1) |->
                                  Prefix(weights, i) % 256],
                          total_weight |-> Prefix(weights, Len(weights)) % 256])
         IN  IF \E i \in 1..Len(weights) : Prefix(weights, i) > 255
             THEN {Err("attempt to add with overflow"), built}
             ELSE {built}

\* WeightedRadiusDist::new: unzip, WeightedIndex::new(weights).unwrap()
WeightedRadiusDist_new(items) ==
    {IF d.ok
     THEN Ok([choices |-> [i \in 1..Len(items) |-> items[i][1]],
              dist |-> d.val[1]])
     ELSE d :
        d \in WeightedIndex_new([i \in 1..Len(items) |-> items[i][2]])}

\* WeightedIndex::sample: a weight below the total is drawn and the index
\* is the number of running totals not above it
SampleIndex(dist) ==
    {Cardinality({i \in 1..Len(dist.cumulative_weights) :
                     dist.cumulative_weights[i] <= chosen}) + 1 :
        chosen \in 0..(dist.total_weight - 1)}

\* a draw that ignores the weights
sample_uniform(self) == {self.choices[i] : i \in 1..Len(self.choices)}

\* impl Distribution<f64> for WeightedRadiusDist: fn sample
sample(self) == {self.choices[i] : i \in SampleIndex(self.dist)}

(***************************************************************************)
(* src/packing.rs: pack                                                    *)
(***************************************************************************)
TARGET_SPHERE_CT == 1000
ASPECT_RATIO == 8

\* the volume of one average sphere, not of TARGET_SPHERE_CT of them
sphere_volume_of_one(spheres) == NDiv(total_volume(spheres), NInt(100))

sphere_volume(spheres) ==
    NMul(NDiv(total_volume(spheres), NInt(100)), NInt(TARGET_SPHERE_CT))

\* a cylinder of the volume of the spheres, packing volume 100%
cyl_volume_full(spheres) == NMul(sphere_volume(spheres), NInt(1))

cyl_volume(spheres) == NMul(sphere_volume(spheres), NInt(2))

cyl_rad(spheres) ==
    Cbrt(NDiv(cyl_volume(spheres), NMul(PI, NInt(ASPECT_RATIO))))

cyl_height(spheres) == NMul(cyl_rad(spheres), NInt(ASPECT_RATIO))

\* spheres.iter().map(|s| (s.radius(), s.proportion()))
RadiusProportions(spheres) ==
    [i \in 1..Len(spheres) |-> <<spheres[i].radius, spheres[i].proportion>>]

\* the ratio the other way round: surface area over volume
sa_to_vol_inverted(spheres) ==
    NDiv(total_surface_area(spheres), total_volume(spheres))

sa_to_vol(spheres) == NDiv(total_volume(spheres), total_surface_area(spheres))

\* SimOutput { volume_fraction, sa_to_vol }
SimOutput(packed, spheres) ==
    [volume_fraction |-> packed.volume_fraction,
     sa_to_vol |-> sa_to_vol(spheres)]

\* serde_json::to_string(&sim_result): the JSON object, members in the
\* order of the struct
to_string(sim) ==
    <<<<"volume_fraction", sim.volume_fraction>>,
      <<"sa_to_vol", sim.sa_to_vol>>>>

(***************************************************************************)
(* The state of one run of the program.  An optional value is <<>> or      *)
(* <<v>>.                                                                  *)
(***************************************************************************)
VARIABLES
    pc,          \* where main is
    file,        \* the input file: <<>> when it cannot be read
    json,        \* main: the text read
    raw,         \* from_str: the SpheresRaw parsed
    spheres,     \* main: the validated Spheres
    container,   \* pack: the Cylinder
    sizes,       \* pack: the WeightedRadiusDist
    proposals,   \* the engine: spheres proposed so far
    proposed,    \* the engine: the sphere handed to contains
    contained,   \* the engine: what contains returned for it
    packed,      \* pack: the PackedVolume
    sim_result,  \* main: the SimOutput
    output,      \* the output file: <<>> while it does not exist
    exit_code,   \* the exit status of the process, -1 while it runs
    error,       \* the error or the panic that ended the run
    trace,       \* the stages completed, in order
    args         \* the arguments of a direct call of Cylinder::new

vars == <<pc, file, json, raw, spheres, container, sizes, proposals, proposed,
          contained, packed, sim_result, output, exit_code, error, trace, args>>

\* the volume fractions the packing engine may report
VolumeFractions == {NRat(1, 4), NRat(1, 2)}

Start(p) ==
    /\ pc = p
    /\ json = <<>> /\ raw = <<>> /\ spheres = <<>> /\ container = <<>>
    /\ sizes = <<>> /\ proposals = 0 /\ proposed = <<>> /\ contained = <<>>
    /\ packed = <<>> /\ sim_result = <<>> /\ output = <<>>
    /\ exit_code = -1 /\ error = "" /\ trace = <<>>

Init ==
    /\ Start("read")
    /\ \/ file = <<>>
       \/ \E n \in 0..MaxRecords :
             \E rp \in [1..n -> Radii \X Proportions], defect \in Defects(n) :
                file = <<Text(rp, defect)>>
    /\ args = <<>>

\* the process ends: exit status 1 for an Err returned by main, 101 for a panic
Exit(code, msg) ==
    /\ pc' = "exit"
    /\ exit_code' = code
    /\ error' = msg

\* main: fs::read_to_string(input).expect(..)
ReadInput ==
    /\ pc = "read"
    /\ IF Len(file) = 0
       THEN /\ Exit(101, "Failed to open input file")
            /\ UNCHANGED <<json, trace>>
       ELSE /\ json' = file
            /\ pc' = "parse"
            /\ trace' = Append(trace, "read")
            /\ UNCHANGED <<exit_code, error>>
    /\ UNCHANGED <<file, raw, spheres, container, sizes, proposals, proposed,
                   contained, packed, sim_result, output, args>>

\* impl FromStr for Spheres: s.parse::<SpheresRaw>()?
ParseRaw ==
    /\ pc = "parse"
    /\ LET r == from_str_raw(json[1])
       IN  IF r.ok
           THEN /\ raw' = r.val
                /\ pc' = "validate"
                /\ trace' = Append(trace, "parse")
                /\ UNCHANGED <<exit_code, error>>
           ELSE /\ Exit(1, r.err)
                /\ UNCHANGED <<raw, trace>>
    /\ UNCHANGED <<file, json, spheres, container, sizes, proposals, proposed,
                   contained, packed, sim_result, output, args>>

\* main without the ? on the result of validation: the records go on to
\* pack whatever validate says
Validate_Unchecked ==
    /\ pc = "validate"
    /\ spheres' = raw
    /\ pc' = "pack"
    /\ trace' = Append(trace, "validate")
    /\ UNCHANGED <<exit_code, error>>
    /\ UNCHANGED <<file, json, raw, container, sizes, proposals, proposed,
                   contained, packed, sim_result, output, args>>

\* impl FromStr for Spheres: validate(..), and the ? of main
Validate ==
    /\ pc = "validate"
    /\ LET r == validate(raw[1])
       IN  IF r.ok
           THEN /\ spheres' = r.val
                /\ pc' = "pack"
                /\ trace' = Append(trace, "validate")
                /\ UNCHANGED <<exit_code, error>>
           ELSE /\ Exit(1, r.err)
                /\ trace' = Append(trace, "validate failed")
                /\ UNCHANGED spheres
    /\ UNCHANGED <<file, json, raw, container, sizes, proposals, proposed,
                   contained, packed, sim_result, output, args>>

\* pack: the sizes of the cylinder and Cylinder::new
PackSizing ==
    /\ pc = "pack"
    /\ \E c \in Cylinder_new(Origin, cyl_rad(spheres[1]), cyl_height(spheres[1])) :
          IF c.ok
          THEN /\ container' = c.val
               /\ pc' = "sampler"
               /\ UNCHANGED <<exit_code, error>>
          ELSE /\ Exit(101, c.err)
               /\ UNCHANGED container
    /\ trace' = Append(trace, "pack called")
    /\ UNCHANGED <<file, json, raw, spheres, sizes, proposals, proposed,
                   contained, packed, sim_result, output, args>>

\* pack: WeightedRadiusDist::new
SamplerNew ==
    /\ pc = "sampler"
    /\ \E d \in WeightedRadiusDist_new(RadiusProportions(spheres[1])) :
          IF d.ok
          THEN /\ sizes' = d.val
               /\ pc' = "engine"
               /\ UNCHANGED <<exit_code, error>>
          ELSE /\ Exit(101, d.err)
               /\ UNCHANGED sizes
    /\ UNCHANGED <<file, json, raw, spheres, container, proposals, proposed,
                   contained, packed, sim_result, output, trace, args>>

\* PackedVolume::new: the engine draws a radius, places a sphere of that
\* radius and asks the container whether it contains the sphere
EnginePropose ==
    /\ pc = "engine"
    /\ proposals < MaxProposals
    /\ \E r \in sample(sizes[1]), x \in 0..1, z \in 0..MaxCoord :
          LET s == Sphere(Point3(NInt(x), NInt(0), NInt(z)), NInt(r))
          IN  \E b \in contains(container[1], s) :
                 /\ proposed' = <<s>>
                 /\ contained' = <<b>>
    /\ proposals' = proposals + 1
    /\ UNCHANGED <<pc, file, json, raw, spheres, container, sizes, packed,
                   sim_result, output, exit_code, error, trace, args>>

\* PackedVolume::new(container, &mut sizes)?: the engine ends with a packing
\* or with an error
EngineReturn ==
    /\ pc = "engine"
    /\ \E res \in {Ok([volume_fraction |-> f]) : f \in VolumeFractions}
                    \cup {Err("FailedToPack")} :
          IF res.ok
          THEN /\ packed' = res.val
               /\ pc' = "output"
               /\ UNCHANGED <<exit_code, error>>
          ELSE /\ Exit(1, res.err)
               /\ UNCHANGED packed
    /\ proposals' = 0
    /\ proposed' = <<>>
    /\ contained' = <<>>
    /\ UNCHANGED <<file, json, raw, spheres, container, sizes, sim_result,
                   output, trace, args>>

\* pack: Ok(SimOutput { .. })
PackOutput ==
    /\ pc = "output"
    /\ sim_result' = <<SimOutput(packed[1], spheres[1])>>
    /\ pc' = "write"
    /\ trace' = Append(trace, "pack")
    /\ UNCHANGED <<file, json, raw, spheres, container, sizes, proposals,
                   proposed, contained, packed, output, exit_code, error, args>>

\* main: fs::write(output, serde_json::to_string(&sim_result)?).expect(..);
\* fs::write creates the file and then writes it, and either may fail
WriteOutput ==
    /\ pc = "write"
    /\ \E outcome \in {"written", "not created", "not written"} :
          IF outcome = "written"
          THEN /\ output' = <<to_string(sim_result[1])>>
               /\ Exit(0, "")
               /\ trace' = Append(trace, "write")
          ELSE /\ output' = IF outcome = "not created" THEN output ELSE <<<<>>>>
               /\ Exit(101, "Failed to write to output file")
               /\ trace' = Append(trace, "write failed")
    /\ UNCHANGED <<file, json, raw, spheres, container, sizes, proposals,
                   proposed, contained, packed, sim_result, args>>

Next ==
    \/ ReadInput
    \/ ParseRaw
    \/ Validate
    \/ PackSizing
    \/ SamplerNew
    \/ EnginePropose
    \/ EngineReturn
    \/ PackOutput
    \/ WriteOutput

Spec == Init /\ [][Next]_vars

(***************************************************************************)
(* Cylinder::new and Cylinder::contains called directly, on any arguments. *)
(***************************************************************************)
InitCyl ==
    /\ Start("cyl_new")
    /\ file = <<>>
    /\ \E bz \in 0..1, r \in (-1)..MaxRadius, h \in (-1)..(2 * MaxRadius) :
          args = <<[bottom |-> Point3(NInt(0), NInt(0), NInt(bz)),
                    radius |-> NInt(r), height |-> NInt(h)]>>

\* Cylinder::new(bottom, radius, height)
CylinderNew ==
    /\ pc = "cyl_new"
    /\ \E c \in Cylinder_new(args[1].bottom, args[1].radius, args[1].height) :
          IF c.ok
          THEN /\ container' = c.val
               /\ pc' = "cyl_built"
               /\ UNCHANGED <<exit_code, error>>
          ELSE /\ Exit(101, c.err)
               /\ UNCHANGED container
    /\ UNCHANGED <<file, json, raw, spheres, sizes, proposals, proposed,
                   contained, packed, sim_result, output, trace, args>>

\* container.contains(&sphere)
CylinderContains ==
    /\ pc = "cyl_built"
    /\ proposed = <<>>
    /\ \E r \in 1..(MaxRadius + 1), x \in 0..1, z \in (-MaxCoord)..(3 * MaxCoord) :
          LET s == Sphere(Point3(NInt(x), NInt(0), NInt(z)), NInt(r))
          IN  \E b \in contains(container[1], s) :
                 /\ proposed' = <<s>>
                 /\ contained' = <<b>>
    /\ UNCHANGED <<pc, file, json, raw, spheres, container, sizes, proposals,
                   packed, sim_result, output, exit_code, error, trace, args>>

NextCyl ==
    \/ CylinderNew
    \/ CylinderContains

SpecCyl == InitCyl /\ [][NextCyl]_vars

(***************************************************************************)
(* The claims.                                                             *)
(***************************************************************************)
\* the sum of the proportions as integers
RECURSIVE IntegerSum(_)
IntegerSum(r) == IF Len(r) = 0 THEN 0 ELSE r[1].proportion + IntegerSum(Tail(r))

AllPositive(r) == \A i \in 1..Len(r) : r[i].radius > 0

HasEvent(e) == \E k \in 1..Len(trace) : trace[k] = e

\* C1: validate returns Ok if and only if every radius is > 0 and the integer
\* sum of the proportions is exactly 100; it returns NonPositive when some
\* radius is <= 0, whatever the sum, and InvalidProportions when all radii
\* are > 0 and the sum is not 100 (a sum that is 100 only modulo 256
\* included).
C1_ValidateOutcome ==
    (Len(raw) > 0 /\ pc # "validate") =>
        /\ (Len(spheres) > 0) <=> (AllPositive(raw[1]) /\ IntegerSum(raw[1]) = 100)
        /\ ~AllPositive(raw[1]) => (pc = "exit" /\ error = "NonPositive")
        /\ (AllPositive(raw[1]) /\ IntegerSum(raw[1]) # 100)
               => (pc = "exit" /\ error = "InvalidProportions")

\* a distribution with positive radii whose proportions sum to 356 was
\* rejected with InvalidProportions
C1_Witness ==
    /\ Len(raw) > 0
    /\ AllPositive(raw[1])
    /\ IntegerSum(raw[1]) = 356
    /\ error = "InvalidProportions"

\* a text that serde_json rejects: invalid syntax, a missing member, a
\* member of the wrong type
IsMalformed(t) ==
    \/ ~t.syntax
    \/ \E i \in 1..Len(t.items) :
          \/ t.items[i].name.kind # "string"
          \/ t.items[i].radius.kind # "number"
          \/ t.items[i].proportion.kind # "number"
          \/ t.items[i].proportion.n < 0
          \/ t.items[i].proportion.n > 255

\* C2: for a malformed text the result is FailedToParse and validation is
\* never run, whatever the well-formed records of the text carry.
C2_MalformedFailsToParse ==
    (Len(json) > 0 /\ IsMalformed(json[1]) /\ pc # "parse") =>
        /\ pc = "exit"
        /\ exit_code = 1
        /\ error = "FailedToParse"
        /\ raw = <<>>
        /\ ~HasEvent("validate")
        /\ ~HasEvent("validate failed")

\* a malformed text with a well-formed record of radius <= 0 ended with
\* FailedToParse
C2_Witness ==
    /\ pc = "exit"
    /\ error = "FailedToParse"
    /\ Len(json) > 0
    /\ \E i \in 1..Len(json[1].items) :
          /\ json[1].items[i].radius.kind = "number"
          /\ json[1].items[i].radius.n <= 0
          /\ json[1].items[i].proportion.kind = "number"
    /\ \E i \in 1..Len(json[1].items) :
          json[1].items[i].proportion.kind = "absent"

IsPrefix(s, t) == Len(s) <= Len(t) /\ \A k \in 1..Len(s) : s[k] = t[k]

\* C3: the output file is written at most once and only after reading,
\* parsing, validation and packing succeeded, in that order; when one of
\* those stages fails the run ends with a non-zero exit status and the
\* output file was never written; pack is only invoked on a distribution
\* that passed validation.
C3_WriteOnlyAfterSuccess ==
    /\ \/ IsPrefix(trace, <<"read", "parse", "validate", "pack called", "pack",
                           "write">>)
       \/ trace = <<"read", "parse", "validate", "pack called", "pack",
                    "write failed">>
       \/ trace = <<"read", "parse", "validate failed">>
    /\ Len(output) > 0 => (HasEvent("write") \/ HasEvent("write failed"))
    /\ (pc = "pack" \/ HasEvent("pack called")) =>
          /\ Len(raw) > 0 /\ Len(spheres) > 0
          /\ AllPositive(spheres[1])
          /\ IntegerSum(spheres[1]) = 100
          /\ validate(raw[1]).ok
    /\ (pc = "exit" /\ ~HasEvent("pack")) =>
          /\ exit_code \in {1, 101}
          /\ output = <<>>
    /\ exit_code = 0 => (pc = "exit" /\ HasEvent("write") /\ Len(output) > 0)

\* a run that wrote the output file and ended with exit status 0
C3_Witness ==
    /\ pc = "exit"
    /\ exit_code = 0
    /\ Len(output) > 0
    /\ trace = <<"read", "parse", "validate", "pack called", "pack", "write">>

\* C4: when validate succeeds the validated distribution holds exactly the
\* records of the raw distribution: as many, in the same order, each with
\* its name, radius and proportion.
C4_ValidatedEqualsRaw ==
    Len(spheres) > 0 =>
        /\ Len(raw) > 0
        /\ Len(spheres[1]) = Len(raw[1])
        /\ \A i \in 1..Len(raw[1]) :
              /\ spheres[1][i].name = raw[1][i].name
              /\ spheres[1][i].radius = raw[1][i].radius
              /\ spheres[1][i].proportion = raw[1][i].proportion

\* a validated distribution of two different records, one of proportion 0
C4_Witness ==
    /\ Len(spheres) > 0
    /\ Len(spheres[1]) = 2
    /\ spheres[1][1].proportion = 0
    /\ spheres[1][1].radius # spheres[1][2].radius
    /\ spheres[1][1].name # spheres[1][2].name

IsPositive(x) == Signs(x) = {1}

C6_ContainedWithinWindow ==
    (Len(contained) > 0 /\ contained[1]) =>
        LET c == container[1]
            s == proposed[1]
        IN  /\ Lt(NAdd(s.center.z, s.radius),
                  NAdd(c.center.z, NDiv(c.height, NInt(2)))) = {TRUE}
            /\ Gt(NSub(s.center.z, s.radius),
                  NSub(c.center.z, NDiv(c.height, NInt(2)))) = {TRUE}
            /\ Lt(c.radius, s.radius) = {TRUE}
            /\ Le(NAdd(NAdd(Powi(NSub(s.center.x, c.center.x), 2),
                            Powi(NSub(s.center.y, c.center.y), 2)),
                       Powi(NSub(s.center.z, c.center.z), 2)),
                  Powi(NSub(c.radius, s.radius), 2)) = {TRUE}

C8_CylinderSize ==
    (Len(container) > 0 /\ Len(spheres) > 0) =>
        LET c == container[1]
            avgVol == avg_volume(spheres[1])
        IN  /\ cyl_volume(spheres[1]) = NMul(NInt(2), NMul(NInt(1000), avgVol))
            /\ c.height = NMul(NInt(8), c.radius)
            /\ NMul(NMul(Powi(c.radius, 3), NInt(8)), PI)
                   = NMul(NInt(2000), avgVol)
            /\ volume(c) = NMul(NInt(2), NMul(NInt(1000), avgVol))

\* the cylinder of a distribution of two radii
C8_Witness ==
    /\ Len(container) > 0
    /\ Len(spheres) > 0
    /\ Len(spheres[1]) = 2
    /\ spheres[1][1].radius # spheres[1][2].radius
    /\ spheres[1][1].proportion = 66

\* C9: for a validated distribution the sampler is always built: the weights
\* are not empty, not all zero, and their running total is exactly 100 and
\* never passes 255; the sampler holds the radii and the weights of the
\* distribution in order, and every draw is a radius of the distribution
\* whose proportion is not zero.
C9_SamplerBuilt ==
    /\ error \notin {"NoItem", "AllWeightsZero", "attempt to add with overflow"}
    /\ pc = "sampler" =>
          LET w == [i \in 1..Len(spheres[1]) |-> spheres[1][i].proportion]
          IN  /\ Len(w) > 0
              /\ \E i \in 1..Len(w) : w[i] # 0
              /\ \A i \in 1..Len(w) : Prefix(w, i) <= 255
              /\ Prefix(w, Len(w)) = 100
              /\ \A d \in WeightedRadiusDist_new(RadiusProportions(spheres[1])) :
                    d.ok
    /\ pc \in {"engine", "output", "write"} => Len(sizes) > 0
    /\ Len(sizes) > 0 =>
          /\ Len(sizes[1].choices) = Len(spheres[1])
          /\ \A i \in 1..Len(spheres[1]) :
                sizes[1].choices[i] = spheres[1][i].radius
          /\ sizes[1].dist.total_weight = 100
          /\ \A i \in 1..(Len(spheres[1]) - 1) :
                sizes[1].dist.cumulative_weights[i]
                    = IntegerSum(SubSeq(spheres[1], 1, i))
    /\ Len(proposed) > 0 /\ Len(sizes) > 0 =>
          \E i \in 1..Len(spheres[1]) :
             /\ spheres[1][i].proportion # 0
             /\ proposed[1].radius = NInt(spheres[1][i].radius)

\* a draw from a distribution whose first record has proportion 0
C9_Witness ==
    /\ Len(sizes) > 0
    /\ Len(proposed) > 0
    /\ Len(spheres[1]) = 2
    /\ spheres[1][1].proportion = 0
    /\ spheres[1][1].radius # spheres[1][2].radius

\* C10: the cylinder pack sizes has a radius greater than every radius the
\* sampler can draw, so contains returns false for every sphere the engine
\* proposes, wherever it is.
C10_NeverContained ==
    /\ (Len(container) > 0 /\ Len(spheres) > 0) =>
          \A i \in 1..Len(spheres[1]) :
             spheres[1][i].proportion >= 1 =>
                /\ Gt(container[1].radius, NInt(spheres[1][i].radius)) = {TRUE}
                /\ Lt(container[1].radius, NInt(spheres[1][i].radius)) = {FALSE}
    /\ (Len(contained) > 0 /\ Len(spheres) > 0) => ~contained[1]

\* contains returned false for a sphere of the largest radius, drawn with
\* proportion 1
C10_Witness ==
    /\ Len(contained) > 0
    /\ Len(spheres) > 0
    /\ ~contained[1]
    /\ proposed[1].radius = NInt(MaxRadius)
    /\ \E i \in 1..Len(spheres[1]) :
          spheres[1][i].radius = MaxRadius /\ spheres[1][i].proportion = 1

====
